---- MODULE Spec2Model ----
(***************************************************************************)
(* A model of sendEmail (src/src/email-worker.ts): one SMTP submission     *)
(* over a socket that starts in plaintext and is upgraded with STARTTLS.   *)
(* Every await of the function is a suspension point and so the end of an  *)
(* action; the relay and the socket runtime are the environment, which     *)
(* chooses the outcome of every open, read, write, upgrade and close.      *)
(* Strings are TLA+ strings and are handled character by character.        *)
(* The worker's fetch handler, which checks a request and calls sendEmail,  *)
(* is modelled in front of call 1 (SpecHttp).                              *)
(***************************************************************************)
EXTENDS Integers, Sequences, FiniteSets, TLC

\* ------------------------------------------------------------------ bounds
NumCalls == 2
MaxClock == 2

Calls == 1..NumCalls

\* ------------------------------------------------------- string primitives
CharAt(s, i) == SubSeq(s, i, i)

startsWith(s, p) == Len(s) >= Len(p) /\ SubSeq(s, 1, Len(p)) = p

WhiteSpace == {" ", "\t", "\n", "\r", "\f"}

\* String.prototype.trim: white space is removed at both ends.
trim(s) ==
  LET keep == {i \in 1..Len(s) : CharAt(s, i) \notin WhiteSpace}
  IN  IF keep = {} THEN ""
      ELSE LET lo == CHOOSE i \in keep : \A j \in keep : i <= j
               hi == CHOOSE i \in keep : \A j \in keep : j <= i
           IN  SubSeq(s, lo, hi)

Digits == "0123456789"

RECURSIVE NatToString(_)
\* `${n}` of a non-negative integer: its decimal digits.
NatToString(n) ==
  IF n < 10 THEN CharAt(Digits, n + 1)
  ELSE NatToString(n \div 10) \o CharAt(Digits, (n % 10) + 1)

DigitValue(c) == (CHOOSE i \in 1..10 : CharAt(Digits, i) = c) - 1

RECURSIVE parseIntFrom(_, _)
parseIntFrom(s, acc) ==
  IF Len(s) = 0 THEN acc
  ELSE parseIntFrom(Tail(s), acc * 10 + DigitValue(CharAt(s, 1)))

\* parseInt of a string of decimal digits.
parseInt(s) == parseIntFrom(s, 0)

\* The printable ASCII characters, in code order: 32..95 and 97..126.
AsciiLow ==
  " !\"#$%&'()*+,-./0123456789:;<=>?@ABCDEFGHIJKLMNOPQRSTUVWXYZ[\\]^_"

AsciiHigh == "abcdefghijklmnopqrstuvwxyz{|}~"

CodeTable ==
  [ch \in {CharAt(AsciiLow, i) : i \in 1..Len(AsciiLow)}
            \cup {CharAt(AsciiHigh, i) : i \in 1..Len(AsciiHigh)} |->
     IF \E i \in 1..Len(AsciiLow) : CharAt(AsciiLow, i) = ch
     THEN 31 + (CHOOSE i \in 1..Len(AsciiLow) : CharAt(AsciiLow, i) = ch)
     ELSE 96 + (CHOOSE i \in 1..Len(AsciiHigh) : CharAt(AsciiHigh, i) = ch)]

\* String.prototype.charCodeAt for a one-character string.
CharCode(c) == CodeTable[c]

Base64Alphabet ==
  "ABCDEFGHIJKLMNOPQRSTUVWXYZabcdefghijklmnopqrstuvwxyz0123456789+/"

Sextet(n) == CharAt(Base64Alphabet, n + 1)

RECURSIVE btoa(_)
\* btoa: three bytes become four characters of the base64 alphabet, the
\* last group is padded with "=".
btoa(s) ==
  IF Len(s) = 0 THEN ""
  ELSE LET b1 == CharCode(CharAt(s, 1))
           b2 == IF Len(s) >= 2 THEN CharCode(CharAt(s, 2)) ELSE 0
           b3 == IF Len(s) >= 3 THEN CharCode(CharAt(s, 3)) ELSE 0
           n  == b1 * 65536 + b2 * 256 + b3
           rest == IF Len(s) > 3 THEN SubSeq(s, 4, Len(s)) ELSE ""
       IN  Sextet(n \div 262144)
           \o Sextet((n \div 4096) % 64)
           \o (IF Len(s) >= 2 THEN Sextet((n \div 64) % 64) ELSE "=")
           \o (IF Len(s) >= 3 THEN Sextet(n % 64) ELSE "=")
           \o btoa(rest)

RECURSIVE join(_, _)
\* Array.prototype.join
join(lines, sep) ==
  IF Len(lines) = 0 THEN ""
  ELSE IF Len(lines) = 1 THEN lines[1]
  ELSE lines[1] \o sep \o join(Tail(lines), sep)

\* ------------------------------------------------- optional (JS) values
\* A property that may be absent: <<>> is undefined, <<v>> is the value v.
Undefined == <<>>
Some(v) == <<v>>
\* !v for a string-valued property: undefined and "" are falsy.
Falsy(v) == v = Undefined \/ v = Some("")
\* v || d
OrElse(v, d) == IF Falsy(v) THEN d ELSE v[1]

\* ------------------------------------------------------ program constants
SMTP_READY == "220"
SMTP_OK == "250"
SMTP_AUTH_SUCCESS == "235"
SMTP_START_INPUT == "354"
SMTP_AUTH_CONTINUE == "334"

DefaultHost == "smtp.office365.com"
DefaultPort == "587"
DefaultFromName == "Notification"

\* The steps of a session, in the order of the code: 1 is the greeting (a
\* read without a command), 2..12 each write a command and read its reply.
Steps == 1..12
PayloadStep == 11
StartTlsStep == 3

\* QuitStep, but one more command is written and answered before the end.
QuitStepLate == PayloadStep + 2

QuitStep == 12

\* ------------------------------------------------------------- the inputs
HostInputs == {Undefined, Some("mx.io")}
PortInputs == {Undefined, Some("25")}
UserInputs == {Undefined, Some(""), Some("me@x.io")}
PassInputs == {Undefined, Some(""), Some("pw")}
ToInputs == {Undefined, Some(""), Some("a@b.com")}
SubjectInputs == {Undefined, Some(""), Some("S")}
BodyInputs == {Undefined, Some(""), Some("B"), Some("x\r\n.y")}
HtmlInputs == {Undefined, Some(TRUE), Some(FALSE)}
FromInputs ==
  { Undefined,
    Some([email |-> Some("f@x.io"), name |-> Undefined]),
    Some([email |-> Undefined, name |-> Some("N")]) }

AuthInputs == {Undefined, Some(""), Some("tok")}

EnvInputs ==
  [SMTP_HOST : HostInputs, SMTP_PORT : PortInputs,
   SMTP_USERNAME : UserInputs, SMTP_PASSWORD : PassInputs,
   AUTH_CODE : AuthInputs]

ConfigInputs ==
  [to : ToInputs, subject : SubjectInputs, body : BodyInputs,
   isHtml : HtmlInputs, from : FromInputs]

\* What the relay may deliver as one chunk: a reply for each code the code
\* knows, with the CRLF that ends an SMTP reply line, a rejection, the same
\* with white space in front, a reply without line end, and a line end
\* alone. A chunk has at least one byte: the stream of a socket delivers its
\* end, not a chunk without bytes.
Replies ==
  { "220 ok\r\n", "250 ok\r\n", "334 ok\r\n", "235 ok\r\n", "354 ok\r\n",
    "500 error\r\n", " 250 ok\r\n", "250 ok", "\r\n" }

\* The message of an Error the runtime rejects or throws with.
FaultMessages == {"", "reset"}

\* ------------------------------------------------------------------ state
VARIABLES
  env,       \* the SMTPConfig every call is given
  cfg,       \* cfg[c]: the EmailConfig of call c
  pc,        \* pc[c]: the await call c is suspended at
  step,      \* step[c]: the step whose exchange is in progress
  response,  \* response[c]: the variable `response`
  lastRaw,   \* lastRaw[c]: the chunk the last read delivered, and its step
  trace,     \* trace[c]: the calls made on the sockets and the replies logged
  swallowed, \* swallowed[c]: the teardown errors caught and only logged
  messageId, \* messageId[c]: the Message-ID the call composed, "" before
  thrown,    \* thrown[c]: where the error that ended the call was thrown
  settled,   \* settled[c]: the state of the promise sendEmail returned
  result,    \* result[c]: the value that promise resolved with
  now,       \* the clock Date.now() reads, in milliseconds
  relay,     \* the chunks the relay of this run may deliver
  faults,    \* the messages of the errors the runtime of this run may raise
  request,   \* the HTTP request the fetch handler was given, if any
  handler,   \* the await the fetch handler is suspended at
  reply      \* the Response the fetch handler returned

vars ==
  <<env, cfg, pc, step, response, lastRaw, trace, swallowed, messageId,
    thrown, settled, result, now, relay, faults, request, handler, reply>>

http == <<request, handler, reply>>
others == <<relay, faults, messageId, http>>

Pending == [pending |-> TRUE]
NoRequest == [method |-> "", authorization |-> Undefined, json |-> [kind |-> "none"]]
NoReply == [status |-> 0, headers |-> {}, body |-> ""]
NoChunk == [step |-> 0, text |-> ""]

Event(op, on, data) == [op |-> op, on |-> on, data |-> data]

\* ------------------------------------------------- the constants of a call
SMTP_HOST == OrElse(env.SMTP_HOST, DefaultHost)
SMTP_PORT == parseInt(OrElse(env.SMTP_PORT, DefaultPort))
SMTP_USERNAME == OrElse(env.SMTP_USERNAME, "")
SMTP_PASSWORD == env.SMTP_PASSWORD
FROM_EMAIL(c) ==
  IF cfg[c].from = Undefined THEN SMTP_USERNAME
  ELSE OrElse(cfg[c].from[1].email, SMTP_USERNAME)
FROM_NAME(c) ==
  IF cfg[c].from = Undefined THEN DefaultFromName
  ELSE OrElse(cfg[c].from[1].name, DefaultFromName)
TO_EMAIL(c) == cfg[c].to
SUBJECT(c) == cfg[c].subject
EMAIL_BODY(c) == cfg[c].body
IS_HTML(c) == cfg[c].isHtml = Some(TRUE)

\* The address the probe socket is asked for (lines 62-65).
ProbeAddress == SMTP_HOST \o ":" \o NatToString(SMTP_PORT)

\* SessionAddress, but with the default host.
SessionAddressDefaultHost == DefaultHost \o ":" \o NatToString(SMTP_PORT)

\* The address the session socket is asked for (lines 80-83).
SessionAddress == SMTP_HOST \o ":" \o NatToString(SMTP_PORT)

\* ConfigError, but the body is not checked.
ConfigErrorIgnoresBody(c) ==
  IF Falsy(SMTP_PASSWORD)
  THEN "SMTP_PASSWORD environment variable is not set"
  ELSE IF SMTP_USERNAME = ""
  THEN "SMTP_USERNAME environment variable is not set"
  ELSE IF Falsy(TO_EMAIL(c)) \/ Falsy(SUBJECT(c))
  THEN "Missing required email parameters: to, subject, and body are required"
  ELSE ""

\* The first configuration check that fails, "" when all pass.
ConfigError(c) ==
  IF Falsy(SMTP_PASSWORD)
  THEN "SMTP_PASSWORD environment variable is not set"
  ELSE IF SMTP_USERNAME = ""
  THEN "SMTP_USERNAME environment variable is not set"
  ELSE IF Falsy(TO_EMAIL(c)) \/ Falsy(SUBJECT(c)) \/ Falsy(EMAIL_BODY(c))
  THEN "Missing required email parameters: to, subject, and body are required"
  ELSE ""

\* ---------------------------------------------------- the session's steps
Expected(s) ==
  CASE s = 1 -> SMTP_READY
    [] s = 2 -> SMTP_OK
    [] s = 3 -> SMTP_READY
    [] s = 4 -> SMTP_OK
    [] s = 5 -> SMTP_AUTH_CONTINUE
    [] s = 6 -> SMTP_AUTH_CONTINUE
    [] s = 7 -> SMTP_AUTH_SUCCESS
    [] s = 8 -> SMTP_OK
    [] s = 9 -> SMTP_OK
    [] s = 10 -> SMTP_START_INPUT
    [] s = 11 -> SMTP_OK
    [] OTHER -> ""

Label(s) ==
  CASE s = 1 -> "SMTP server not ready"
    [] s = 2 -> "EHLO failed"
    [] s = 3 -> "STARTTLS failed"
    [] s = 4 -> "Secure EHLO failed"
    [] s = 5 -> "AUTH LOGIN failed"
    [] s = 6 -> "Username authentication failed"
    [] s = 7 -> "Password authentication failed"
    [] s = 8 -> "MAIL FROM failed"
    [] s = 9 -> "RCPT TO failed"
    [] s = 10 -> "DATA command failed"
    [] s = 11 -> "Email sending failed"
    [] OTHER -> ""

\* TransportOf, but the second EHLO still uses the reader and writer of the
\* socket.
TransportOfPlainEhlo(s) == IF s <= StartTlsStep + 1 THEN "plain" ELSE "secure"

\* The reader and writer a step uses: those of the socket up to STARTTLS,
\* those of the secure socket afterwards.
TransportOf(s) == IF s <= StartTlsStep THEN "plain" ELSE "secure"

\* new Date().toUTCString(), for the first ten seconds of the epoch.
toUTCString(t) ==
  "Thu, 01 Jan 1970 00:00:0" \o NatToString((t \div 1000) % 10) \o " GMT"

MessageId(t) == "<" \o NatToString(t) \o "@" \o SMTP_HOST \o ">"

emailHeaders(c, t) ==
  << "From: " \o FROM_NAME(c) \o " <" \o FROM_EMAIL(c) \o ">",
     "To: " \o TO_EMAIL(c)[1],
     "Subject: " \o SUBJECT(c)[1],
     "Date: " \o toUTCString(t),
     "Message-ID: " \o MessageId(t),
     "MIME-Version: 1.0" >>
  \o (IF IS_HTML(c)
      THEN << "Content-Type: text/html; charset=UTF-8",
              "Content-Transfer-Encoding: 8bit" >>
      ELSE << "Content-Type: text/plain; charset=UTF-8",
              "Content-Transfer-Encoding: 8bit" >>)

\* emailMessage, but without the empty line between headers and body.
emailMessageNoEmptyLine(c, t) ==
  join(emailHeaders(c, t) \o << EMAIL_BODY(c)[1], "." >>, "\r\n")

\* Lines 258-263: headers, an empty line, the body and a dot, joined by CRLF.
emailMessage(c, t) ==
  join(emailHeaders(c, t) \o << "", EMAIL_BODY(c)[1], "." >>, "\r\n")

\* Command, but AUTH LOGIN is written right after the upgrade, without the
\* second EHLO.
CommandWithoutSecureEhlo(c, s, t) ==
  CASE s = 2 -> "EHLO " \o SMTP_HOST
    [] s = 3 -> "STARTTLS"
    [] s = 4 -> "AUTH LOGIN"
    [] s = 5 -> "AUTH LOGIN"
    [] s = 6 -> btoa(SMTP_USERNAME)
    [] s = 7 -> btoa(SMTP_PASSWORD[1])
    [] s = 8 -> "MAIL FROM:<" \o FROM_EMAIL(c) \o ">"
    [] s = 9 -> "RCPT TO:<" \o TO_EMAIL(c)[1] \o ">"
    [] s = 10 -> "DATA"
    [] s = 11 -> emailMessage(c, t)
    [] OTHER -> "QUIT"

\* Command, but the password is written as it is.
CommandClearPassword(c, s, t) ==
  CASE s = 2 -> "EHLO " \o SMTP_HOST
    [] s = 3 -> "STARTTLS"
    [] s = 4 -> "EHLO " \o SMTP_HOST
    [] s = 5 -> "AUTH LOGIN"
    [] s = 6 -> btoa(SMTP_USERNAME)
    [] s = 7 -> SMTP_PASSWORD[1]
    [] s = 8 -> "MAIL FROM:<" \o FROM_EMAIL(c) \o ">"
    [] s = 9 -> "RCPT TO:<" \o TO_EMAIL(c)[1] \o ">"
    [] s = 10 -> "DATA"
    [] s = 11 -> emailMessage(c, t)
    [] OTHER -> "QUIT"

\* The command step s writes; t is the clock when it is composed.
Command(c, s, t) ==
  CASE s = 2 -> "EHLO " \o SMTP_HOST
    [] s = 3 -> "STARTTLS"
    [] s = 4 -> "EHLO " \o SMTP_HOST
    [] s = 5 -> "AUTH LOGIN"
    [] s = 6 -> btoa(SMTP_USERNAME)
    [] s = 7 -> btoa(SMTP_PASSWORD[1])
    [] s = 8 -> "MAIL FROM:<" \o FROM_EMAIL(c) \o ">"
    [] s = 9 -> "RCPT TO:<" \o TO_EMAIL(c)[1] \o ">"
    [] s = 10 -> "DATA"
    [] s = 11 -> emailMessage(c, t)
    [] OTHER -> "QUIT"

\* sendCommand / sendSecureCommand: the bytes handed to the writer.
Encoded(command) == command \o "\r\n"

\* ------------------------------------------------------ the environment
\* How an awaited operation of the runtime ends: it resolves, or it rejects
\* with an Error that carries a message.
Resolved == [ok |-> TRUE, message |-> ""]
Outcomes == {Resolved} \cup {[ok |-> FALSE, message |-> m] : m \in faults}

\* What reader.read() resolves to: a chunk, or no value (the stream ended).
Chunk(r) == [kind |-> "chunk", text |-> r]
EndOfStream == [kind |-> "end", text |-> ""]
Rejected(m) == [kind |-> "error", text |-> m]
ReadOutcomes ==
  {Chunk(r) : r \in relay} \cup {EndOfStream}
    \cup {Rejected(m) : m \in faults}

\* ----------------------------------------------------------- error paths
\* The inner catch around the reachability probe (lines 74-76).
Unreachable(message) == "SMTP server unreachable: " \o message

\* Catch, but without the fallback for an error that has no message.
CatchRawMessage(message) ==
  [settled |-> "fulfilled",
   result |-> [success |-> FALSE, error |-> message]]

\* The outer catch (lines 303-309): the error becomes the result.
Catch(message) ==
  [settled |-> "fulfilled",
   result |-> [success |-> FALSE,
               error |-> IF message = "" THEN "Unknown error occurred"
                         ELSE message]]

\* Success, but the message does not name the recipient.
SuccessWithoutRecipient(c) ==
  [settled |-> "fulfilled",
   result |-> [success |-> TRUE, message |-> "Email sent successfully"]]

\* The return at the end of the try block (lines 298-301).
Success(c) ==
  [settled |-> "fulfilled",
   result |-> [success |-> TRUE,
               message |-> "Email sent successfully to " \o TO_EMAIL(c)[1]]]

\* An error thrown at `site` inside the try block ends the call.
Throw(c, site, message) ==
  /\ pc' = [pc EXCEPT ![c] = "done"]
  /\ thrown' = [thrown EXCEPT ![c] = site]
  /\ settled' = [settled EXCEPT ![c] = Catch(message).settled]
  /\ result' = [result EXCEPT ![c] = Catch(message).result]

Goto(c, label) ==
  /\ pc' = [pc EXCEPT ![c] = label]
  /\ UNCHANGED <<thrown, settled, result>>

\* Log, but the calls share one record of what was done.
LogShared(c, events) == trace' = [d \in Calls |-> trace[d] \o events]

\* What call c did to its sockets is recorded with the call.
Log(c, events) == trace' = [trace EXCEPT ![c] = @ \o events]

\* AwaitReply, but RCPT TO is written without reading the reply to MAIL FROM.
AwaitReplyPipelined(s) ==
  IF s = 8 THEN <<>> ELSE <<Event("read", TransportOf(s), "")>>

\* The read that follows the write of step s, on the transport of s.
AwaitReply(s) == <<Event("read", TransportOf(s), "")>>

\* NoResponse, but the Error is thrown without a message.
NoResponseUnnamed(s) == ""

\* readResponse / readSecureResponse: the message thrown when the read
\* yields no value.
NoResponse(s) ==
  IF TransportOf(s) = "plain" THEN "No response from server"
  ELSE "No secure response from server"

\* Gate, but the reply to the second EHLO is not checked.
GateUncheckedSecureEhlo(s, text) ==
  IF s \notin {QuitStep, StartTlsStep + 1} /\ ~startsWith(text, Expected(s))
  THEN Label(s) \o ": " \o text
  ELSE ""

\* Gate, but the reply to the payload is not checked.
GateUncheckedPayload(s, text) ==
  IF s \notin {QuitStep, PayloadStep} /\ ~startsWith(text, Expected(s))
  THEN Label(s) \o ": " \o text
  ELSE ""

\* The check of a reply: the message thrown, "" when the reply passes. The
\* reply to QUIT is not checked.
Gate(s, text) ==
  IF s # QuitStep /\ ~startsWith(text, Expected(s))
  THEN Label(s) \o ": " \o text
  ELSE ""

\* --------------------------------------------------------------- actions
\* Lines 34-68: the configuration is read and checked, and the probe socket
\* is asked for, up to the await of its opened promise.
Start(c) ==
  /\ pc[c] = "start"
  /\ IF ConfigError(c) # ""
     THEN /\ Throw(c, "config", ConfigError(c))
          /\ UNCHANGED trace
     ELSE \E o \in Outcomes :
            /\ Log(c, <<Event("connect", "probe", ProbeAddress)>>)
            /\ IF o.ok THEN Goto(c, "probeOpened")
               ELSE Throw(c, "probe", Unreachable(o.message))
  /\ UNCHANGED <<env, cfg, step, response, lastRaw, swallowed, now, others>>

\* testSocketClose, but the session socket is asked for while the close of
\* the probe is pending.
testSocketCloseNotAwaited ==
  <<Event("close", "probe", ""), Event("connect", "plain", SessionAddress)>>

\* Line 72: the probe is closed, and the close is awaited.
testSocketClose == <<Event("close", "probe", "")>>

\* Lines 68-72: the probe opened (or not); it is closed at once.
ProbeOpened(c) ==
  /\ pc[c] = "probeOpened"
  /\ \E o \in Outcomes :
       IF o.ok
       THEN /\ Log(c, testSocketClose)
            /\ Goto(c, "probeClosed")
       ELSE /\ Throw(c, "probe", Unreachable(o.message))
            /\ UNCHANGED trace
  /\ UNCHANGED <<env, cfg, step, response, lastRaw, swallowed, now, others>>

\* Lines 72-91: the probe's close ended; the session socket is asked for.
ProbeClosed(c) ==
  /\ pc[c] = "probeClosed"
  /\ \E o \in Outcomes :
       IF o.ok
       THEN \E o2 \in Outcomes :
              /\ Log(c, <<Event("connect", "plain", SessionAddress)>>)
              /\ IF o2.ok THEN Goto(c, "opened")
                 ELSE Throw(c, "open", o2.message)
       ELSE /\ Throw(c, "probe", Unreachable(o.message))
            /\ UNCHANGED trace
  /\ UNCHANGED <<env, cfg, step, response, lastRaw, swallowed, now, others>>

\* Lines 91-116: the session socket opened; its writer and reader are taken
\* and the greeting is read.
Opened(c) ==
  /\ pc[c] = "opened"
  /\ \E o \in Outcomes :
       IF o.ok
       THEN /\ Log(c, << Event("getWriter", "plain", ""),
                         Event("getReader", "plain", ""),
                         Event("read", "plain", "") >>)
            /\ step' = [step EXCEPT ![c] = 1]
            /\ Goto(c, "read")
       ELSE /\ Throw(c, "open", o.message)
            /\ UNCHANGED <<trace, step>>
  /\ UNCHANGED <<env, cfg, response, lastRaw, swallowed, now, others>>

\* UpgradeRequest, but the upgrade is asked for while the locks are held.
UpgradeRequestLocksHeld ==
  << Event("startTls", "plain", ""),
     Event("releaseLock", "plain", "writer"),
     Event("releaseLock", "plain", "reader") >>

\* Lines 138-151: the locks of the writer and the reader are released and
\* the socket is asked for its upgrade.
UpgradeRequest ==
  << Event("releaseLock", "plain", "writer"),
     Event("releaseLock", "plain", "reader"),
     Event("startTls", "plain", "") >>

\* What follows a reply that passed its check, up to the next await: the
\* next command is written; after the reply to STARTTLS the locks are
\* released and the upgrade is asked for (lines 135-154); after the reply
\* to QUIT the writer is closed (line 279).
Proceed(c, s) ==
  IF s = StartTlsStep
  THEN /\ Log(c, <<Event("reply", TransportOf(s), response'[c])>>
                    \o UpgradeRequest)
       /\ Goto(c, "tlsOpened")
       /\ UNCHANGED step
  ELSE IF s = QuitStep
  THEN /\ Log(c, << Event("reply", TransportOf(s), response'[c]),
                    Event("writerClose", "secure", "") >>)
       /\ Goto(c, "writerClosed")
       /\ UNCHANGED step
  ELSE /\ Log(c, << Event("reply", TransportOf(s), response'[c]),
                    Event("write", TransportOf(s + 1),
                          Encoded(Command(c, s + 1, now))) >>)
       /\ step' = [step EXCEPT ![c] = s + 1]
       /\ Goto(c, "write")

\* The Message-ID header is composed with the payload, after the reply to
\* DATA (line 244).
Compose(c, s) ==
  messageId' = [messageId EXCEPT ![c] =
    IF s = PayloadStep - 1 THEN MessageId(now) ELSE @]

\* readResponse / readSecureResponse and the check that follows each call:
\* the pending read ends.
ReadDone(c) ==
  /\ pc[c] = "read"
  /\ \E r \in ReadOutcomes :
       LET s == step[c] IN
       CASE r.kind = "error" ->
              /\ Throw(c, "read", r.text)
              /\ UNCHANGED <<trace, step, response, lastRaw, messageId>>
         [] r.kind = "end" ->
              /\ Throw(c, "end", NoResponse(s))
              /\ UNCHANGED <<trace, step, response, lastRaw, messageId>>
         [] OTHER ->
              /\ lastRaw' = [lastRaw EXCEPT ![c] = [step |-> s, text |-> r.text]]
              /\ response' = [response EXCEPT ![c] = trim(r.text)]
              /\ IF Gate(s, trim(r.text)) # ""
                 THEN /\ Throw(c, "mismatch", Gate(s, trim(r.text)))
                      /\ Log(c, <<Event("reply", TransportOf(s), trim(r.text))>>)
                      /\ UNCHANGED step
                      /\ UNCHANGED messageId
                 ELSE Proceed(c, s) /\ Compose(c, s)
  /\ UNCHANGED <<env, cfg, swallowed, now, relay, faults, http>>

\* sendCommand / sendSecureCommand: the pending write ends; the reply is
\* read next.
WriteDone(c) ==
  /\ pc[c] = "write"
  /\ \E o \in Outcomes :
       IF o.ok
       THEN /\ Log(c, AwaitReply(step[c]))
            /\ Goto(c, "read")
       ELSE /\ Throw(c, "write", o.message)
            /\ UNCHANGED trace
  /\ UNCHANGED <<env, cfg, step, response, lastRaw, swallowed, now, others>>

\* Lines 154-178: the secure socket opened; its writer and reader are taken
\* and EHLO is written again.
TlsOpened(c) ==
  /\ pc[c] = "tlsOpened"
  /\ \E o \in Outcomes :
       IF o.ok
       THEN /\ Log(c, << Event("getWriter", "secure", ""),
                         Event("getReader", "secure", ""),
                         Event("write", TransportOf(StartTlsStep + 1),
                               Encoded(Command(c, StartTlsStep + 1, now))) >>)
            /\ step' = [step EXCEPT ![c] = StartTlsStep + 1]
            /\ Goto(c, "write")
       ELSE /\ Throw(c, "tls", o.message)
            /\ UNCHANGED <<trace, step>>
  /\ UNCHANGED <<env, cfg, response, lastRaw, swallowed, now, others>>

\* AfterWriterClose, but a writer that did not close ends the teardown.
AfterWriterCloseGivesUp(o) ==
  IF o.ok
  THEN << Event("readerCancel", "secure", ""), Event("close", "secure", "") >>
  ELSE <<>>

\* Lines 280-291: whatever the outcome o of the writer's close, which the
\* catch of line 280 swallows, the reader is cancelled and the secure socket
\* is closed.
AfterWriterClose(o) ==
  << Event("readerCancel", "secure", ""), Event("close", "secure", "") >>

\* Lines 279-291: the close of the secure writer ended, well or not; the
\* reader is cancelled (not awaited) and the secure socket is closed.
WriterClosed(c) ==
  /\ pc[c] = "writerClosed"
  /\ \E o \in Outcomes, cancel \in Outcomes :
       /\ swallowed' = [swallowed EXCEPT ![c] =
            @ \o (IF o.ok THEN <<>> ELSE <<"writerClose">>)
              \o (IF cancel.ok THEN <<>> ELSE <<"readerCancel">>)]
       /\ Log(c, AfterWriterClose(o))
       /\ Goto(c, "socketClosed")
  /\ UNCHANGED <<env, cfg, step, response, lastRaw, now, others>>

\* Lines 291-301: the close of the secure socket ended, well or not; the
\* call returns its success.
SocketClosed(c) ==
  /\ pc[c] = "socketClosed"
  /\ \E o \in Outcomes :
       swallowed' = [swallowed EXCEPT ![c] =
         @ \o (IF o.ok THEN <<>> ELSE <<"close">>)]
  /\ pc' = [pc EXCEPT ![c] = "done"]
  /\ settled' = [settled EXCEPT ![c] = Success(c).settled]
  /\ result' = [result EXCEPT ![c] = Success(c).result]
  /\ UNCHANGED <<env, cfg, step, response, lastRaw, trace, thrown, now, others>>

\* Time passes between two steps.
Tick ==
  /\ now < MaxClock
  /\ now' = now + 1
  /\ UNCHANGED <<env, cfg, pc, step, response, lastRaw, trace, swallowed,
                 thrown, settled, result, others>>

Next ==
  \/ \E c \in Calls :
       \/ Start(c)
       \/ ProbeOpened(c)
       \/ ProbeClosed(c)
       \/ Opened(c)
       \/ ReadDone(c)
       \/ WriteDone(c)
       \/ TlsOpened(c)
       \/ WriterClosed(c)
       \/ SocketClosed(c)
  \/ Tick

\* ------------------------------------------------------------ initial states
Fresh(started) ==
  /\ pc = [c \in Calls |-> IF c \in started THEN "start" ELSE "idle"]
  /\ step = [c \in Calls |-> 0]
  /\ response = [c \in Calls |-> ""]
  /\ lastRaw = [c \in Calls |-> NoChunk]
  /\ trace = [c \in Calls |-> <<>>]
  /\ swallowed = [c \in Calls |-> <<>>]
  /\ messageId = [c \in Calls |-> ""]
  /\ thrown = [c \in Calls |-> ""]
  /\ settled = [c \in Calls |-> "pending"]
  /\ result = [c \in Calls |-> Pending]
  /\ now = 0

\* sendEmail is called directly, not by the fetch handler.
Direct ==
  /\ request = NoRequest
  /\ handler = "none"
  /\ reply = NoReply

\* One call of sendEmail, with any configuration and any message; AUTH_CODE
\* is not read by sendEmail.
Init ==
  /\ env \in {e \in EnvInputs : e.AUTH_CODE = Undefined}
  /\ Direct
  /\ \E m \in ConfigInputs : cfg = [c \in Calls |-> m]
  /\ Fresh({1})
  /\ relay = Replies
  /\ faults = FaultMessages

Spec == Init /\ [][Next]_vars

\* A bulk send (src/src/examples.ts, lines 55-65): every call is started
\* with the same environment, which passes the checks, and a message per
\* recipient; two recipients may be the same.
BulkEnv ==
  [SMTP_HOST |-> Undefined, SMTP_PORT |-> Undefined,
   SMTP_USERNAME |-> Some("me@x.io"), SMTP_PASSWORD |-> Some("pw"),
   AUTH_CODE |-> Undefined]

BulkMessage(recipient) ==
  [to |-> Some(recipient), subject |-> Some("S"), body |-> Some("B"),
   isHtml |-> Some(TRUE), from |-> Undefined]

Recipients == {"a@b.com", "c@d.com"}

\* In a bulk send the relay answers with the bare reply lines and the
\* runtime raises one kind of error.
BulkReplies ==
  {"220 ok\r\n", "250 ok\r\n", "334 ok\r\n", "235 ok\r\n", "354 ok\r\n"}

BulkFaults == {"reset"}

InitBulk ==
  /\ env = BulkEnv
  /\ Direct
  /\ \E to \in [Calls -> Recipients] :
       /\ to[1] = "a@b.com"
       /\ cfg = [c \in Calls |-> BulkMessage(to[c])]
  /\ Fresh(Calls)
  /\ relay = BulkReplies
  /\ faults = BulkFaults

SpecBulk == InitBulk /\ [][Next]_vars

\* One call with a message that is complete: the subject is a line, or a
\* string with a line break in it, as a caller or a JSON body can pass it.
ComposeInputs ==
  [to : {Some("a@b.com")},
   subject : {Some("S"), Some("S\r\nContent-Type: text/plain; charset=UTF-8")},
   body : {Some("B"), Some("x\r\n.y")},
   isHtml : HtmlInputs, from : FromInputs]

InitCompose ==
  /\ env = BulkEnv
  /\ Direct
  /\ \E m \in ComposeInputs : cfg = [c \in Calls |-> m]
  /\ Fresh({1})
  /\ relay = BulkReplies
  /\ faults = BulkFaults

SpecCompose == InitCompose /\ [][Next]_vars

\* The awaited operation of call c ends: the runtime resolves or rejects
\* the promise the call is suspended at, and the call runs to its next await.
Resumed(c) ==
  \/ Start(c)
  \/ ProbeOpened(c)
  \/ ProbeClosed(c)
  \/ Opened(c)
  \/ ReadDone(c)
  \/ WriteDone(c)
  \/ TlsOpened(c)
  \/ WriterClosed(c)
  \/ SocketClosed(c)

\* One call, with a runtime and a relay that let no awaited operation
\* pending for ever.
SpecLive == Init /\ [][Next]_vars /\ \A c \in Calls : WF_vars(Resumed(c))

\* ------------------------------------------------------- the fetch handler
\* The worker's fetch handler (lines 314-411) in front of one call of
\* sendEmail, call 1.
MethodInputs == {"GET", "POST"}

\* Values of the Authorization header as Headers.get returns them: null when
\* the header is absent, else the value without white space at its ends.
AuthorizationInputs ==
  { Undefined, Some(""), Some("Bearer tok"), Some("bearer  tok"), Some("tok"),
    Some("Bearer bad"), Some("Bearer") }

\* What request.json() makes of the body: a rejection, the value null, or
\* an object, whose absent keys read as undefined.
JsonInputs ==
  {[kind |-> "invalid"], [kind |-> "null"]}
  \cup [kind : {"object"},
        value : [to : {Undefined, Some(""), Some("\"a\"@b.com")},
                 subject : {Undefined, Some("S")},
                 body : {Some(""), Some("B")},
                 isHtml : {Undefined}, from : {Undefined}]]

Requests ==
  [method : MethodInputs, authorization : AuthorizationInputs,
   json : JsonInputs]

\* The match of /^Bearer\s+/i at the start of the header.
BearerPrefix(h) ==
  /\ Len(h) >= 7
  /\ \A i \in 1..6 : CharAt(h, i) \in {CharAt("bearer", i), CharAt("BEARER", i)}
  /\ CharAt(h, 7) \in WhiteSpace

RECURSIVE trimStart(_)
trimStart(s) ==
  IF Len(s) > 0 /\ CharAt(s, 1) \in WhiteSpace THEN trimStart(Tail(s)) ELSE s

\* authHeader.replace(/^Bearer\s+/i, '') (line 357).
replaceBearer(h) ==
  IF BearerPrefix(h) THEN trimStart(SubSeq(h, 7, Len(h))) ELSE h

RECURSIVE Escaped(_)
\* The characters of a JSON string literal, as JSON.stringify escapes them.
Escaped(s) ==
  IF Len(s) = 0 THEN ""
  ELSE LET ch == CharAt(s, 1)
       IN  (CASE ch = "\"" -> "\\\""
              [] ch = "\\" -> "\\\\"
              [] ch = "\n" -> "\\n"
              [] ch = "\r" -> "\\r"
              [] ch = "\t" -> "\\t"
              [] ch = "\f" -> "\\f"
              [] OTHER -> ch) \o Escaped(Tail(s))

Quote(s) == "\"" \o Escaped(s) \o "\""

\* JSON.stringify of a result ({success, message} or {success, error}),
\* compact or with an indent of two spaces.
stringify(r, indent) ==
  LET colon == IF indent THEN ": " ELSE ":"
      first == Quote("success") \o colon
                 \o (IF r.success THEN "true" ELSE "false")
      second == IF r.success
                THEN Quote("message") \o colon \o Quote(r.message)
                ELSE Quote("error") \o colon \o Quote(r.error)
  IN  IF indent THEN "{\n  " \o first \o ",\n  " \o second \o "\n}"
      ELSE "{" \o first \o "," \o second \o "}"

JsonHeader == <<"Content-Type", "application/json">>

\* A response of the handler's own checks.
Refusal(status, headers, error) ==
  [status |-> status, headers |-> {JsonHeader} \cup headers,
   body |-> stringify([success |-> FALSE, error |-> error], FALSE)]

\* Denied, but any token that is not empty is accepted.
DeniedAnyToken(req, e) ==
  IF req.method # "POST"
  THEN Refusal(405, {<<"Allow", "POST">>},
         "Only POST requests are allowed. Please send email configuration in request body.")
  ELSE IF Falsy(e.AUTH_CODE)
  THEN Refusal(500, {},
         "Authentication not configured. Please contact administrator.")
  ELSE IF Falsy(req.authorization)
  THEN Refusal(401, {<<"WWW-Authenticate", "Bearer">>},
         "Authorization header is required. Please provide \"Authorization: Bearer YOUR_AUTH_CODE\".")
  ELSE IF replaceBearer(req.authorization[1]) = ""
  THEN Refusal(403, {}, "Invalid authentication code. Access denied.")
  ELSE NoReply

\* The checks before the body is read (lines 316-366): the response of the
\* first one that fails, or NoReply when all pass.
Denied(req, e) ==
  IF req.method # "POST"
  THEN Refusal(405, {<<"Allow", "POST">>},
         "Only POST requests are allowed. Please send email configuration in request body.")
  ELSE IF Falsy(e.AUTH_CODE)
  THEN Refusal(500, {},
         "Authentication not configured. Please contact administrator.")
  ELSE IF Falsy(req.authorization)
  THEN Refusal(401, {<<"WWW-Authenticate", "Bearer">>},
         "Authorization header is required. Please provide \"Authorization: Bearer YOUR_AUTH_CODE\".")
  ELSE IF \/ replaceBearer(req.authorization[1]) = ""
          \/ replaceBearer(req.authorization[1]) # e.AUTH_CODE[1]
  THEN Refusal(403, {}, "Invalid authentication code. Access denied.")
  ELSE NoReply

\* The handler's outer catch (lines 402-409).
Caught(message) ==
  [status |-> 500, headers |-> {JsonHeader},
   body |-> stringify([success |-> FALSE,
                       error |-> IF message = "" THEN "Unknown error occurred"
                                 ELSE message], TRUE)]

\* The TypeError of reading `to` of null (line 384).
NullConfig == "Cannot read properties of null (reading 'to')"

\* The checks of the parsed body (lines 371-392), as Denied.
Invalid(json) ==
  IF json.kind = "invalid"
  THEN Refusal(400, {},
         "Invalid JSON in request body. Expected EmailConfig object with to, subject, and body fields.")
  ELSE IF json.kind = "null" THEN Caught(NullConfig)
  ELSE IF \/ Falsy(json.value.to)
          \/ Falsy(json.value.subject)
          \/ Falsy(json.value.body)
  THEN Refusal(400, {},
         "Missing required fields: to, subject, and body are required in the request body.")
  ELSE NoReply

\* StatusOf, but a failure is answered with 200 too.
StatusAlwaysOk(r) == 200

StatusOf(r) == IF r.success THEN 200 ELSE 500

\* Lines 397-400: the result of sendEmail becomes the response.
Answer(r) ==
  [status |-> StatusOf(r), headers |-> {JsonHeader},
   body |-> stringify(r, TRUE)]

sendEmailState ==
  <<pc, step, response, lastRaw, trace, swallowed, thrown, settled, result>>

\* Lines 316-372: the checks of method and authentication, then the body is
\* awaited.
Receive ==
  /\ handler = "fetch"
  /\ IF Denied(request, env) # NoReply
     THEN /\ reply' = Denied(request, env)
          /\ handler' = "returned"
     ELSE /\ handler' = "json"
          /\ UNCHANGED reply
  /\ UNCHANGED <<env, cfg, now, relay, faults, messageId, request,
                 sendEmailState>>

\* Lines 372-395: the body is there; it is checked and sendEmail is called.
Parsed ==
  /\ handler = "json"
  /\ IF Invalid(request.json) # NoReply
     THEN /\ reply' = Invalid(request.json)
          /\ handler' = "returned"
          /\ UNCHANGED <<cfg, pc>>
     ELSE /\ cfg' = [cfg EXCEPT ![1] = request.json.value]
          /\ pc' = [pc EXCEPT ![1] = "start"]
          /\ handler' = "sendEmail"
          /\ UNCHANGED reply
  /\ UNCHANGED <<env, now, relay, faults, messageId, request, step, response,
                 lastRaw, trace, swallowed, thrown, settled, result>>

\* Lines 395-400: sendEmail returned.
Respond ==
  /\ handler = "sendEmail"
  /\ pc[1] = "done"
  /\ reply' = Answer(result[1])
  /\ handler' = "returned"
  /\ UNCHANGED <<env, cfg, now, relay, faults, messageId, request,
                 sendEmailState>>

NextHttp ==
  \/ Receive
  \/ Parsed
  \/ Respond
  \/ Next

\* The worker is configured completely, or lacks the password, or lacks the
\* user name; AUTH_CODE is any of its inputs.
HttpEnvs ==
  {e \in EnvInputs :
     /\ e.SMTP_HOST = Undefined
     /\ e.SMTP_PORT = Undefined
     /\ <<e.SMTP_USERNAME, e.SMTP_PASSWORD>> \in
          { <<Some("me@x.io"), Some("pw")>>, <<Some("me@x.io"), Undefined>>,
            <<Undefined, Some("pw")>> }}

HttpReplies == BulkReplies \cup {"500 error\r\n"}

InitHttp ==
  /\ env \in HttpEnvs
  /\ request \in Requests
  /\ handler = "fetch"
  /\ reply = NoReply
  /\ cfg = [c \in Calls |->
              [to |-> Undefined, subject |-> Undefined, body |-> Undefined,
               isHtml |-> Undefined, from |-> Undefined]]
  /\ Fresh({})
  /\ relay = HttpReplies
  /\ faults = BulkFaults

SpecHttp == InitHttp /\ [][NextHttp]_vars


\* ------------------------------------------------------------ properties
Returned(c) == pc[c] = "done"

\* The events of a call's trace with one of the given operations, in order.
Only(c, ops) == SelectSeq(trace[c], LAMBDA e : e.op \in ops)

Last(seq) == seq[Len(seq)]

\* sub occurs in s.
includes(s, sub) ==
  \E i \in 1..(Len(s) + 1) :
    i + Len(sub) - 1 <= Len(s) /\ SubSeq(s, i, i + Len(sub) - 1) = sub

\* The reply codes of a session that succeeds, step by step.
HappyCodes ==
  <<"220", "250", "220", "250", "334", "334", "235", "250", "250", "354", "250">>

\* The last chunk read by c was the reply to one of the checked steps.
GateReached(c) == lastRaw[c].step \in 1..Len(HappyCodes)

\* C1 as stated: a reply that does not begin with the expected code of its
\* step makes the call return success=false with an error that contains
\* the step's label and the raw reply text.
C1_RawReplyRejected ==
  \A c \in Calls :
    (GateReached(c)
       /\ ~startsWith(lastRaw[c].text, HappyCodes[lastRaw[c].step]))
    => /\ Returned(c)
       /\ result[c].success = FALSE
       /\ includes(result[c].error, Label(lastRaw[c].step))
       /\ includes(result[c].error, lastRaw[c].text)

\* C1, amended: a reply that, trimmed of white space at both ends, does not
\* begin with the expected code of its step ends the call at that step: the
\* result is success=false, its error is the step's label, ": " and the
\* trimmed reply, and the logged reply is the last event on the connection
\* (no command is written after it).
C1_TrimmedReplyRejected ==
  \A c \in Calls :
    (GateReached(c)
       /\ ~startsWith(trim(lastRaw[c].text), HappyCodes[lastRaw[c].step]))
    => /\ Returned(c)
       /\ step[c] = lastRaw[c].step
       /\ result[c].success = FALSE
       /\ includes(result[c].error, Label(step[c]))
       /\ result[c].error = Label(step[c]) \o ": " \o trim(lastRaw[c].text)
       /\ Last(trace[c]).op = "reply"
       /\ Last(trace[c]).data = trim(lastRaw[c].text)

\* A call was ended by the reply to the payload, after it took every
\* earlier step on both transports.
C1_Witness ==
  \E c \in Calls :
    /\ Returned(c)
    /\ thrown[c] = "mismatch"
    /\ lastRaw[c] = [step |-> PayloadStep, text |-> "500 error\r\n"]

\* C2: when the twelve replies of a call began with 220, 250, 220, 250,
\* 334, 334, 235, 250, 250, 354, 250 and anything for QUIT, the call returns
\* success=true with a message that contains the recipient address.
C2_HappyPathSucceeds ==
  \A c \in Calls :
    LET replies == Only(c, {"reply"}) IN
    (/\ Returned(c)
     /\ Len(replies) = Len(HappyCodes) + 1
     /\ \A i \in 1..Len(HappyCodes) : startsWith(replies[i].data, HappyCodes[i]))
    => /\ result[c].success = TRUE
       /\ includes(result[c].message, cfg[c].to[1])

C2_Witness ==
  \E c \in Calls :
    /\ Returned(c)
    /\ Len(Only(c, {"reply"})) = Len(HappyCodes) + 1
    /\ result[c].success = TRUE
    /\ cfg[c].to = Some("a@b.com")

\* The reads and writes of a call, in order.
IO(c) == Only(c, {"read", "write"})

\* C3: the reads and writes of a call alternate, beginning with the read of
\* the greeting: no two commands are written without a read between them
\* and no two reads are made without a command between them.
C3_LockStep ==
  \A c \in Calls :
    /\ IO(c) # <<>> => IO(c)[1].op = "read"
    /\ \A i \in 1..(Len(IO(c)) - 1) : IO(c)[i].op # IO(c)[i + 1].op

\* A call wrote a command on each transport and read the reply to each.
C3_Witness ==
  \E c \in Calls :
    /\ Len(IO(c)) >= 2 * PayloadStep
    /\ Last(IO(c)).op = "read"

\* How each command of the fixed sequence begins on the wire.
FixedSequence ==
  << "EHLO ", "STARTTLS\r\n", "EHLO ", "AUTH LOGIN\r\n",
     btoa(OrElse(env.SMTP_USERNAME, "")) \o "\r\n",
     btoa(OrElse(env.SMTP_PASSWORD, "")) \o "\r\n",
     "MAIL FROM:<", "RCPT TO:<", "DATA\r\n", "From: ", "QUIT\r\n" >>

\* The fixed order of commands, checked replies and the upgrade: the i-th
\* of these events of a session is a reply when i is odd and a command when
\* i is even up to the reply to STARTTLS, then comes the upgrade, then a
\* command when i is odd and a reply when i is even.
UpgradeAt == 2 * StartTlsStep
FixedOp(i) ==
  IF i = UpgradeAt THEN "startTls"
  ELSE IF (i < UpgradeAt) = (i % 2 = 1) THEN "reply" ELSE "write"

\* The number of the reply, and of the command, at place i of that order.
ReplyNo(i) == IF i < UpgradeAt THEN (i + 1) \div 2 ELSE i \div 2
CommandNo(i) == IF i < UpgradeAt THEN i \div 2 ELSE (i - 1) \div 2

\* C4: the commands a call wrote are a prefix of the fixed sequence EHLO,
\* STARTTLS, [upgrade], EHLO, AUTH LOGIN, base64(username),
\* base64(password), MAIL FROM, RCPT TO, DATA, payload, QUIT, and each was
\* written only after the reply before it was logged and began with the
\* expected code of its step.
C4_FixedOrder ==
  LET fixed == FixedSequence IN
  \A c \in Calls :
    LET order == Only(c, {"reply", "write", "startTls"}) IN
    \A i \in 1..Len(order) :
      /\ order[i].op = FixedOp(i)
      /\ order[i].op = "write" =>
           /\ CommandNo(i) <= Len(FixedSequence)
           /\ startsWith(order[i].data, fixed[CommandNo(i)])
      /\ (order[i].op = "reply" /\ i < Len(order)) =>
           /\ ReplyNo(i) <= Len(HappyCodes)
           /\ startsWith(order[i].data, HappyCodes[ReplyNo(i)])

\* A call wrote the whole sequence, QUIT included.
C4_Witness ==
  \E c \in Calls :
    /\ Len(Only(c, {"write"})) = Len(FixedSequence)
    /\ startsWith(Last(Only(c, {"write"})).data, "QUIT")

\* One of the required values is missing or empty.
Incomplete(c) ==
  \/ Falsy(env.SMTP_PASSWORD) \/ Falsy(env.SMTP_USERNAME)
  \/ Falsy(cfg[c].to) \/ Falsy(cfg[c].subject) \/ Falsy(cfg[c].body)

\* C5: a call without password, username, recipient, subject or body
\* returns success=false, and at no time asks for a socket.
C5_NoConnectWhenIncomplete ==
  \A c \in Calls :
    Incomplete(c)
    => /\ Only(c, {"connect"}) = <<>>
       /\ pc[c] \in {"idle", "start", "done"}
       /\ Returned(c) => result[c].success = FALSE

\* A call with everything but the body has returned.
C5_Witness ==
  \E c \in Calls :
    /\ Returned(c)
    /\ Falsy(cfg[c].body)
    /\ ~Falsy(env.SMTP_PASSWORD) /\ ~Falsy(env.SMTP_USERNAME)
    /\ ~Falsy(cfg[c].to) /\ ~Falsy(cfg[c].subject)

\* C6 as stated: a call that passed the check of the reply to the payload
\* (and so wrote QUIT) returns success=true.
C6_AcceptedMeansSuccess ==
  \A c \in Calls :
    (Returned(c) /\ step[c] = QuitStep) => result[c].success = TRUE

ThrowSites ==
  {"config", "probe", "open", "read", "end", "write", "tls", "mismatch"}

\* C7: a call has no result before it returns and one result when it has
\* returned; its promise is never rejected; a call ended by an error thrown
\* at any site returns success=false with an error string that is not
\* empty, and only such a call returns success=false.
C7_FailuresBecomeResults ==
  \A c \in Calls :
    /\ ~Returned(c) => (settled[c] = "pending" /\ result[c] = Pending)
    /\ Returned(c) =>
         /\ settled[c] = "fulfilled"
         /\ result[c].success \in BOOLEAN
         /\ thrown[c] \in ThrowSites =>
              (result[c].success = FALSE /\ result[c].error # "")
         /\ thrown[c] \notin ThrowSites =>
              (thrown[c] = "" /\ result[c].success = TRUE)

\* The upgrade was rejected with an error that has no message.
C7_Witness ==
  \E c \in Calls :
    /\ Returned(c)
    /\ thrown[c] = "tls"
    /\ result[c] = [success |-> FALSE, error |-> "Unknown error occurred"]

\* C8: after the first release of a lock of the plaintext transport, no
\* event of the call is a read, a write or the taking of a reader or writer
\* on the plaintext transport.
C8_PlainUnusedAfterUpgrade ==
  \A c \in Calls :
    LET released == {i \in 1..Len(trace[c]) : trace[c][i].op = "releaseLock"} IN
    released # {} =>
      LET first == CHOOSE i \in released : \A k \in released : i <= k IN
      \A j \in (first + 1)..Len(trace[c]) :
        trace[c][j].op \in {"read", "write", "getReader", "getWriter"}
          => trace[c][j].on = "secure"

\* A call released the locks and then wrote and read on the secure
\* transport.
C8_Witness ==
  \E c \in Calls :
    /\ \E i \in 1..Len(trace[c]) : trace[c][i].op = "releaseLock"
    /\ Last(trace[c]) = Event("read", "secure", "")

\* C9: a call that passed the configuration checks never asks for more than
\* two sockets; when it has returned and its probe failed, it asked for the
\* probe socket alone, read and wrote nothing, and its error is 'SMTP server
\* unreachable: ' and the message of the cause; when its probe succeeded, it
\* asked for the probe socket and then for the session socket, both at the
\* same host and port.
C9_ProbeThenSession ==
  \A c \in Calls :
    LET conns == Only(c, {"connect"}) IN
    /\ Len(conns) <= 2
    /\ (Returned(c) /\ ~Incomplete(c)) =>
         IF thrown[c] = "probe"
         THEN /\ Len(conns) = 1
              /\ conns[1].on = "probe"
              /\ IO(c) = <<>>
              /\ result[c].success = FALSE
              /\ startsWith(result[c].error, "SMTP server unreachable")
              /\ \E m \in faults :
                   result[c].error = "SMTP server unreachable: " \o m
         ELSE /\ Len(conns) = 2
              /\ conns[1].on = "probe"
              /\ conns[2].on = "plain"
              /\ conns[1].data = conns[2].data

\* A call with a host of its own returned after a probe that succeeded.
C9_Witness ==
  \E c \in Calls :
    /\ Returned(c)
    /\ env.SMTP_HOST = Some("mx.io")
    /\ Len(Only(c, {"connect"})) = 2

\* C10 as stated: two calls with the same message never compose the same
\* Message-ID.
C10_DistinctMessageIds ==
  \A c1, c2 \in Calls :
    (c1 # c2 /\ cfg[c1] = cfg[c2] /\ messageId[c1] # "" /\ messageId[c2] # "")
    => messageId[c1] # messageId[c2]

\* The commands written and the replies logged on the secure transport.
SecureExchange(c) ==
  SelectSeq(trace[c], LAMBDA e : e.on = "secure" /\ e.op \in {"write", "reply"})

\* C11: the first command on the secure transport is EHLO, and a second
\* command (AUTH LOGIN) is written on it only after the reply to that EHLO
\* was logged on the secure transport and began with 250.
C11_SecureEhloFirst ==
  \A c \in Calls :
    LET x == SecureExchange(c) IN
    /\ Len(x) >= 1 => (x[1].op = "write" /\ startsWith(x[1].data, "EHLO "))
    /\ Len(x) >= 3 =>
         /\ x[2].op = "reply"
         /\ startsWith(x[2].data, "250")
         /\ x[3].op = "write"
         /\ x[3].data = "AUTH LOGIN\r\n"
    /\ \A i \in 1..Len(x) :
         (x[i].op = "write" /\ i > 1) => (x[2].op = "reply" /\ startsWith(x[2].data, "250"))

\* A call wrote AUTH LOGIN after the second EHLO was answered.
C11_Witness ==
  \E c \in Calls :
    /\ Len(SecureExchange(c)) >= 3
    /\ SecureExchange(c)[3].data = "AUTH LOGIN\r\n"

\* The header is the token, alone or after the word Bearer and white space.
CarriesToken(header, code) ==
  \E prefix \in {"", "Bearer ", "bearer  "} : header = prefix \o code

Present(field) == field # Undefined /\ field # Some("")

Acceptable ==
  /\ request.method = "POST"
  /\ Present(env.AUTH_CODE)
  /\ Present(request.authorization)
  /\ CarriesToken(request.authorization[1], env.AUTH_CODE[1])
  /\ request.json.kind = "object"
  /\ Present(request.json.value.to)
  /\ Present(request.json.value.subject)
  /\ Present(request.json.value.body)

\* C12: the handler calls sendEmail only for a POST request, with AUTH_CODE
\* configured, a header carrying that token, and a JSON body with to, subject
\* and body; every other request is answered 405, 500, 401, 403 or 400,
\* sendEmail is not called and no connection is opened.
C12_InvokedOnlyWhenAcceptable ==
  /\ pc[1] # "idle" => Acceptable
  /\ ~Acceptable =>
       /\ trace[1] = <<>>
       /\ handler \in {"fetch", "json", "returned"}
       /\ handler = "returned" => reply.status \in {405, 500, 401, 403, 400}

C12_Witness ==
  /\ handler = "sendEmail"
  /\ Acceptable
  /\ trace[1] # <<>>
  /\ trace[1][1].op = "connect"

RECURSIVE Unescaped(_)
\* The string a JSON string literal's characters stand for.
Unescaped(s) ==
  IF Len(s) = 0 THEN ""
  ELSE IF CharAt(s, 1) = "\\" /\ Len(s) >= 2
  THEN (CASE CharAt(s, 2) = "n" -> "\n"
          [] CharAt(s, 2) = "r" -> "\r"
          [] CharAt(s, 2) = "t" -> "\t"
          [] OTHER -> CharAt(s, 2)) \o Unescaped(SubSeq(s, 3, Len(s)))
  ELSE CharAt(s, 1) \o Unescaped(Tail(s))

\* The body is a JSON object with the fields of the result r.
Serializes(body, r) ==
  LET head == IF r.success THEN "{\n  \"success\": true,\n  \"message\": \""
              ELSE "{\n  \"success\": false,\n  \"error\": \""
      foot == "\"\n}"
      text == IF r.success THEN r.message ELSE r.error
  IN  /\ startsWith(body, head)
      /\ Len(body) >= Len(head) + Len(foot)
      /\ SubSeq(body, Len(body) - Len(foot) + 1, Len(body)) = foot
      /\ Unescaped(SubSeq(body, Len(head) + 1, Len(body) - Len(foot))) = text

\* C13: when the handler called sendEmail, the status of its response is 200
\* exactly when the result has success = true and 500 otherwise, and the body
\* is the result as JSON.
C13_StatusMirrorsResult ==
  (handler = "returned" /\ pc[1] = "done") =>
    /\ reply.status = 200 <=> result[1].success
    /\ reply.status = 500 <=> ~result[1].success
    /\ Serializes(reply.body, result[1])

C13_Witness ==
  /\ handler = "returned"
  /\ pc[1] = "done"
  /\ reply.status = 200
  /\ includes(reply.body, "\\\"a\\\"@b.com")

RECURSIVE split(_)
\* The lines of a string, CRLF being the line end.
split(s) ==
  LET at == {i \in 1..(Len(s) - 1) : SubSeq(s, i, i + 1) = "\r\n"}
  IN  IF at = {} THEN <<s>>
      ELSE LET i == CHOOSE i \in at : \A j \in at : i <= j
           IN  <<SubSeq(s, 1, i - 1)>> \o split(SubSeq(s, i + 2, Len(s)))

\* The header lines of a message: its lines up to the first empty one.
HeaderLines(message) ==
  LET lines == split(message)
      empty == {i \in 1..Len(lines) : lines[i] = ""}
  IN  IF empty = {} THEN lines
      ELSE SubSeq(lines, 1, (CHOOSE i \in empty : \A j \in empty : i <= j) - 1)

\* The payloads a call wrote: what it wrote right after DATA.
Payloads(c) ==
  LET writes == SelectSeq(trace[c], LAMBDA e : e.op = "write")
  IN  {writes[i].data : i \in {j \in 2..Len(writes) : writes[j - 1].data = "DATA\r\n"}}

HeadersNamed(message, name) ==
  SelectSeq(HeaderLines(message), LAMBDA line : startsWith(line, name \o ":"))

\* C14: a payload has exactly one Content-Type header, text/html with
\* isHtml true and text/plain with isHtml false or omitted, and exactly one
\* Content-Transfer-Encoding header, which says 8bit.
C14_OneContentType ==
  \A c \in Calls : \A p \in Payloads(c) :
    /\ HeadersNamed(p, "Content-Type") =
         << IF cfg[c].isHtml = Some(TRUE)
            THEN "Content-Type: text/html; charset=UTF-8"
            ELSE "Content-Type: text/plain; charset=UTF-8" >>
    /\ HeadersNamed(p, "Content-Transfer-Encoding") =
         << "Content-Transfer-Encoding: 8bit" >>

\* All that a call holds: the locals of its invocation.
Local(c) ==
  << pc[c], step[c], response[c], lastRaw[c], trace[c], swallowed[c],
     messageId[c], thrown[c], settled[c], result[c] >>

\* A step is the step of one call and leaves the other calls as they were.
OneCallMoves == \E c \in Calls : \A d \in Calls \ {c} : Local(d)' = Local(d)

\* A call that got past the configuration asked for its own probe socket,
\* and a call that got past the probe for its own session socket.
OwnConnections(c) ==
  /\ (Returned(c) /\ thrown[c] # "config") =>
       (trace[c] # <<>> /\ trace[c][1] = Event("connect", "probe", ProbeAddress))
  /\ (Returned(c) /\ thrown[c] \notin {"config", "probe"}) =>
       Len(Only(c, {"connect"})) = 2

\* The result of a call follows from the replies logged on its own
\* sockets: it is a success exactly when all twelve came, the first eleven
\* with the codes of the happy path.
OwnReplies(c) ==
  LET replies == Only(c, {"reply"})
  IN  Returned(c) =>
        (result[c].success <=>
           /\ Len(replies) = Len(HappyCodes) + 1
           /\ \A i \in 1..Len(HappyCodes) :
                startsWith(replies[i].data, HappyCodes[i]))

\* C15: concurrent calls share no mutable state: every step changes the
\* locals of one call only, each call opens its own probe and session
\* sockets, and its result follows from the replies on its own sockets.
C15_CallsIndependent ==
  /\ [](\A c \in Calls : OwnConnections(c) /\ OwnReplies(c))
  /\ [][OneCallMoves]_vars

C15_Witness ==
  /\ Returned(1)
  /\ Returned(2)
  /\ result[1].success
  /\ ~result[2].success
  /\ thrown[2] = "mismatch"

\* C16 as stated: a call that returns a failure has not written QUIT and
\* has not closed the writer, cancelled the reader or closed the socket of
\* its session.
C16_FailureWithoutQuit ==
  \A c \in Calls :
    (Returned(c) /\ ~result[c].success) =>
      /\ \A i \in 1..Len(trace[c]) :
           ~(trace[c][i].op = "write" /\ trace[c][i].data = "QUIT\r\n")
      /\ \A i \in 1..Len(trace[c]) :
           ~(/\ trace[c][i].op \in {"writerClose", "readerCancel", "close"}
             /\ trace[c][i].on \in {"plain", "secure"})

\* C17: the probe socket is opened and closed with nothing written to it
\* and nothing read from it, and the session socket is asked for only when
\* the close of the probe has ended: the two are never open together.
C17_ProbeClosedBeforeSession ==
  \A c \in Calls :
    /\ \A i \in 1..Len(trace[c]) :
         trace[c][i].on = "probe" => trace[c][i].op \in {"connect", "close"}
    /\ pc[c] \in {"probeOpened", "probeClosed"} =>
         \A i \in 1..Len(trace[c]) : trace[c][i].on = "probe"
    /\ Len(trace[c]) >= 3 =>
         /\ trace[c][1] = [op |-> "connect", on |-> "probe", data |-> trace[c][1].data]
         /\ trace[c][2] = [op |-> "close", on |-> "probe", data |-> ""]
         /\ trace[c][3].op = "connect"
         /\ trace[c][3].on = "plain"
         /\ \A i \in 3..Len(trace[c]) : trace[c][i].on # "probe"

C17_Witness ==
  /\ pc[1] = "opened"
  /\ Len(trace[1]) = 3
  /\ trace[1][2].op = "close"
  /\ trace[1][3].op = "connect"

\* C18: at every step, on either transport, a read that ends without bytes
\* (the stream has ended) makes the call return a failure that says there
\* was no response from the server; the read is not issued again and
\* nothing is written after it.
C18_EmptyReadAborts ==
  \A c \in Calls :
    thrown[c] = "end" =>
      /\ Returned(c)
      /\ result[c].success = FALSE
      /\ result[c].error =
           (IF Last(trace[c]).on = "plain" THEN "No response from server"
            ELSE "No secure response from server")
      /\ Last(trace[c]).op = "read"
      /\ Len(trace[c]) >= 2
      /\ trace[c][Len(trace[c]) - 1].op # "read"

C18_Witness ==
  /\ thrown[1] = "end"
  /\ Last(trace[1]).on = "secure"
  /\ Len(Only(1, {"read"})) = 7

\* What call c wrote and what was answered, on any of its sockets.
Exchange(c) == Only(c, {"write", "reply"})

Answered(x, i, code) ==
  i > 1 /\ x[i - 1].op = "reply" /\ startsWith(x[i - 1].data, code)

\* The credentials go out in base64 on the secure transport, each after the
\* go-ahead for it: the user name after 334 to AUTH LOGIN, the password
\* after 334 to the user name, MAIL FROM after 235 to the password.
CredentialsGated(c) ==
  LET x == Exchange(c)
      user == env.SMTP_USERNAME[1] \o "\r\n"
      pass == env.SMTP_PASSWORD[1] \o "\r\n"
  IN  \A i \in 1..Len(x) :
        x[i].op = "write" =>
          /\ (\/ includes(x[i].data, btoa(env.SMTP_USERNAME[1]))
              \/ includes(x[i].data, btoa(env.SMTP_PASSWORD[1]))) =>
               /\ x[i].on = "secure"
               /\ \E j \in 1..(i - 1) : x[j].on = "secure" /\ x[j].op = "write"
          /\ x[i].data = btoa(env.SMTP_USERNAME[1]) \o "\r\n" =>
               /\ Answered(x, i, "334")
               /\ i > 2
               /\ x[i - 2] = [op |-> "write", on |-> "secure", data |-> "AUTH LOGIN\r\n"]
          /\ x[i].data = btoa(env.SMTP_PASSWORD[1]) \o "\r\n" =>
               /\ Answered(x, i, "334")
               /\ i > 2
               /\ x[i - 2] = [op |-> "write", on |-> "secure",
                              data |-> btoa(env.SMTP_USERNAME[1]) \o "\r\n"]
          /\ startsWith(x[i].data, "MAIL FROM:") =>
               /\ Answered(x, i, "235")
               /\ i > 2
               /\ x[i - 2] = [op |-> "write", on |-> "secure",
                              data |-> btoa(env.SMTP_PASSWORD[1]) \o "\r\n"]

\* C19 as stated: neither the user name nor the password is written as it
\* is, on any socket; in base64 they are written as CredentialsGated says.
C19_CredentialsOnlyEncoded ==
  \A c \in Calls :
    LET x == Only(c, {"write"})
    IN  x # <<>> =>
          /\ CredentialsGated(c)
          /\ \A i \in 1..Len(x) :
               /\ ~includes(x[i].data, env.SMTP_USERNAME[1])
               /\ ~includes(x[i].data, env.SMTP_PASSWORD[1])

\* C19, amended: the password is never written as it is; the user name is
\* written as it is only as the sender's address, in MAIL FROM and in the
\* payload, both on the secure transport; in base64 they are written as
\* CredentialsGated says.
C19_PasswordOnlyEncoded ==
  \A c \in Calls :
    LET x == Only(c, {"write"})
    IN  x # <<>> =>
          /\ CredentialsGated(c)
          /\ \A i \in 1..Len(x) :
               /\ ~includes(x[i].data, env.SMTP_PASSWORD[1])
               /\ includes(x[i].data, env.SMTP_USERNAME[1]) =>
                    /\ x[i].on = "secure"
                    /\ FROM_EMAIL(c) = env.SMTP_USERNAME[1]
                    /\ \/ x[i].data = "MAIL FROM:<" \o env.SMTP_USERNAME[1] \o ">\r\n"
                       \/ (i > 1 /\ x[i - 1].data = "DATA\r\n")

C19_Witness ==
  LET x == Only(1, {"write"})
  IN  /\ Len(x) >= 7
      /\ x[5].data = btoa(env.SMTP_USERNAME[1]) \o "\r\n"
      /\ x[6].data = btoa(env.SMTP_PASSWORD[1]) \o "\r\n"
      /\ x[7].data = "MAIL FROM:<" \o env.SMTP_USERNAME[1] \o ">\r\n"

\* Where in its trace call c asked for the upgrade.
Upgrades(c) == {k \in 1..Len(trace[c]) : trace[c][k].op = "startTls"}

\* C20: the upgrade is asked for once, on the session socket, after STARTTLS
\* was written and answered with 220 and after the writer's and the
\* reader's locks were released; nothing is done while the secure socket's
\* opened is awaited; then the secure writer and reader are taken and only
\* then the next command is written; an upgrade that fails ends the call
\* with success = false.
C20_UpgradeInOrder ==
  \A c \in Calls :
    LET t == trace[c] IN
    /\ Cardinality(Upgrades(c)) <= 1
    /\ \A k \in Upgrades(c) :
         /\ k > 5
         /\ t[k].on = "plain"
         /\ t[k - 1] = [op |-> "releaseLock", on |-> "plain", data |-> "reader"]
         /\ t[k - 2] = [op |-> "releaseLock", on |-> "plain", data |-> "writer"]
         /\ t[k - 3].op = "reply"
         /\ startsWith(t[k - 3].data, "220")
         /\ t[k - 4] = [op |-> "read", on |-> "plain", data |-> ""]
         /\ t[k - 5] = [op |-> "write", on |-> "plain", data |-> "STARTTLS\r\n"]
         /\ \A i \in 1..k : t[i].on # "secure"
         /\ Len(t) > k =>
              /\ Len(t) >= k + 3
              /\ t[k + 1] = [op |-> "getWriter", on |-> "secure", data |-> ""]
              /\ t[k + 2] = [op |-> "getReader", on |-> "secure", data |-> ""]
              /\ t[k + 3].op = "write"
              /\ t[k + 3].on = "secure"
         /\ pc[c] = "tlsOpened" => Len(t) = k
    /\ pc[c] = "tlsOpened" => Upgrades(c) # {}
    /\ Upgrades(c) = {} => \A i \in 1..Len(t) : t[i].on # "secure"
    /\ thrown[c] = "tls" =>
         /\ Returned(c)
         /\ result[c].success = FALSE
         /\ Last(t).op = "startTls"

C20_Witness ==
  /\ Upgrades(1) # {}
  /\ \E k \in Upgrades(1) :
       /\ Len(trace[1]) >= k + 3
       /\ trace[1][k + 3].op = "write"

\* The connections and reads of a call stay within two opens and twelve
\* reads.
WithinBudget(c) ==
  /\ Len(Only(c, {"connect"})) <= 2
  /\ Len(Only(c, {"read"})) <= 12

\* The passing of time alone ends nothing: a step of the clock leaves every
\* call where it is, and a call leaves the await it is suspended at only
\* when that await ends.
NoDeadline ==
  /\ now' # now => \A c \in Calls : Local(c)' = Local(c)
  /\ \A c \in Calls :
       (pc[c] \in {"probeOpened", "opened", "read", "tlsOpened"}
          /\ pc'[c] # pc[c]) =>
         /\ now' = now
         /\ Len(trace'[c]) > Len(trace[c]) \/ Returned(c)'

\* C21: when every awaited operation ends, a call that was started returns
\* a result, within two opens and twelve reads; no step has a deadline, so
\* a call whose open, read or upgrade stays pending stays where it is.
C21_TerminatesWhenResolved ==
  /\ \A c \in Calls : (pc[c] = "start") ~> Returned(c)
  /\ [](\A c \in Calls : WithinBudget(c))
  /\ [](\A c \in Calls : Returned(c) => result[c] # Pending)
  /\ [][NoDeadline]_vars

C21_Witness ==
  /\ Returned(1)
  /\ result[1].success
  /\ Len(Only(1, {"connect"})) = 2
  /\ Len(Only(1, {"read"})) = 12

\* The text of a payload for the message of call c, composed at time t, as
\* C22 lays it out.
Layout(c, t) ==
  "From: " \o FROM_NAME(c) \o " <" \o FROM_EMAIL(c) \o ">\r\n"
  \o "To: " \o cfg[c].to[1] \o "\r\n"
  \o "Subject: " \o cfg[c].subject[1] \o "\r\n"
  \o "Date: Thu, 01 Jan 1970 00:00:00 GMT\r\n"
  \o "Message-ID: <" \o NatToString(t) \o "@smtp.office365.com>\r\n"
  \o "MIME-Version: 1.0\r\n"
  \o (IF cfg[c].isHtml = Some(TRUE)
      THEN "Content-Type: text/html; charset=UTF-8\r\n"
      ELSE "Content-Type: text/plain; charset=UTF-8\r\n")
  \o "Content-Transfer-Encoding: 8bit\r\n"
  \o "\r\n"
  \o cfg[c].body[1] \o "\r\n"
  \o "."

endsWith(s, p) ==
  Len(s) >= Len(p) /\ SubSeq(s, Len(s) - Len(p) + 1, Len(s)) = p

\* C22: the payload is one write, made of the headers From, To, Subject,
\* Date, Message-ID, MIME-Version, Content-Type and
\* Content-Transfer-Encoding, an empty line, the body as it was given and a
\* line with a dot, joined by CRLF; on the wire it ends with CRLF dot CRLF.
C22_PayloadLayout ==
  \A c \in Calls :
    LET writes == Only(c, {"write"})
        after == {j \in 2..Len(writes) : writes[j - 1].data = "DATA\r\n"}
    IN  /\ Cardinality(after) <= 1
        /\ \A j \in after :
             /\ \E t \in 0..MaxClock : writes[j].data = Layout(c, t) \o "\r\n"
             /\ endsWith(writes[j].data, "\r\n.\r\n")
             /\ includes(writes[j].data, "\r\n\r\n" \o cfg[c].body[1] \o "\r\n.\r\n")
             /\ j < Len(writes) => writes[j + 1].data = "QUIT\r\n"

C22_Witness ==
  \E p \in Payloads(1) :
    /\ cfg[1].body = Some("x\r\n.y")
    /\ endsWith(p, "\r\n\r\nx\r\n.y\r\n.\r\n")

\* The teardown calls in a call's trace, in order.
TeardownCalls(c) ==
  SelectSeq(trace[c],
            LAMBDA e : e.on = "secure"
                       /\ e.op \in {"writerClose", "readerCancel", "close"})

\* C23: after the QUIT exchange the writer is closed, the reader is
\* cancelled and the socket is closed, in this order, each once and each
\* whether or not an earlier one failed; success is returned only when all
\* three were called.
C23_TeardownInOrder ==
  \A c \in Calls :
    LET t == trace[c]
        n == Len(trace[c])
        calls == TeardownCalls(c)
    IN  /\ \A i \in 1..Len(calls) :
             calls[i].op = <<"writerClose", "readerCancel", "close">>[i]
        /\ Len(calls) <= 3
        /\ calls # <<>> =>
             /\ n > Len(calls) + 2
             /\ SubSeq(t, n - Len(calls) + 1, n) = calls
             /\ t[n - Len(calls)].op = "reply"
             /\ t[n - Len(calls) - 2] = [op |-> "write", on |-> "secure",
                                         data |-> "QUIT\r\n"]
        /\ pc[c] = "socketClosed" => Len(calls) = 3
        /\ (Returned(c) /\ result[c].success) =>
             /\ Len(calls) = 3
             /\ result[c] # Pending
        /\ (~Returned(c)) => result[c] = Pending

C23_Witness ==
  /\ Returned(1)
  /\ result[1].success
  /\ swallowed[1] # <<>>
  /\ swallowed[1][1] = "writerClose"
  /\ Len(TeardownCalls(1)) = 3

\* The token of the request is the configured one.
Authenticated ==
  /\ Present(env.AUTH_CODE)
  /\ Present(request.authorization)
  /\ CarriesToken(request.authorization[1], env.AUTH_CODE[1])

\* The status C24 gives a request: that of the first check that fails, 0
\* when every check passes.
FirstFailure ==
  IF request.method # "POST" THEN 405
  ELSE IF ~Present(env.AUTH_CODE) THEN 500
  ELSE IF ~Present(request.authorization) THEN 401
  ELSE IF ~CarriesToken(request.authorization[1], env.AUTH_CODE[1]) THEN 403
  ELSE IF request.json.kind = "invalid" THEN 400
  ELSE IF request.json.kind = "null" THEN 400
  ELSE IF \/ ~Present(request.json.value.to)
          \/ ~Present(request.json.value.subject)
          \/ ~Present(request.json.value.body)
  THEN 400
  ELSE 0

\* C24 as stated: the handler answers with the status of the first check
\* that fails, in the order method (405), AUTH_CODE (500), Authorization
\* header (401), token (403), body (400: not JSON, or to, subject or body
\* missing); a request that is not authenticated is never answered 400.
C24_FirstFailingCheck ==
  handler = "returned" =>
    /\ FirstFailure # 0 => reply.status = FirstFailure
    /\ FirstFailure = 0 => reply.status \in {200, 500}
    /\ (request.method = "POST" /\ ~Authenticated) => reply.status # 400
====
